---- MODULE Spec2Model ----
(***************************************************************************)
(* Model of scripts/appdaemon/backfill_state.py: the three request         *)
(* handlers of BackfillState (backfill_state, generate_statistics,         *)
(* generate_cost_statistics) acting on the tables states_meta, states,     *)
(* statistics_meta, statistics and statistics_short_term of one SQLite     *)
(* file.  A handler runs to completion before the next one starts          *)
(* (requests are served one at a time), so each handler is one action.     *)
(*                                                                         *)
(* Tables are bags of rows: the code relies on no storage-level uniqueness *)
(* constraint, so a table may hold the same row twice.                     *)
(* Numbers stored in REAL columns are binary floating-point numbers, held   *)
(* as rationals <<n, d>>; every arithmetic result is rounded to nearest.   *)
(***************************************************************************)
EXTENDS Integers, Sequences, FiniteSets, Bags, TLC

VARIABLES
    states_meta,            \* table states_meta: entity_id -> metadata_id
    states,                 \* table states: bag of raw readings
    statistics,             \* table statistics: bag of hourly rows
    statistics_short_term,  \* table statistics_short_term: bag of rows
    openConns,              \* connections opened by handlers and not closed
    prev,                   \* the committed tables before the last call
    last,                   \* the last call: handler, arguments, response
    tick                    \* parity of the number of calls so far

vars == <<states_meta, states, statistics, statistics_short_term,
          openConns, prev, last, tick>>

----------------------------------------------------------------------------
(* Bounds of the model *)

\* raw readings the recorder is followed up to
MaxReadings == 2
\* raw readings before the first aggregate call
MaxInitReadings == 2
\* rows of a statistics series before the first call
MaxInitRows == 2
\* bits of the significand of a float (53 in the code's doubles)
Precision == 4

\* seconds per hour bucket (hour_ts = int(ts // 3600 * 3600))
HourSeconds == 3600

----------------------------------------------------------------------------
(* Floating-point arithmetic for the REAL columns and Python floats: the
   exact rational result, rounded to the nearest number of Precision
   significant bits, ties to the even significand *)

RECURSIVE GCD(_, _)
GCD(a, b) == IF b = 0 THEN a ELSE GCD(b, a % b)

Abs(n) == IF n < 0 THEN -n ELSE n

\* the rational n/d in lowest terms with a positive denominator (d # 0)
Rat(n, d) ==
    LET g == GCD(Abs(n), Abs(d))
        s == IF d < 0 THEN -1 ELSE 1
    IN  <<(s * n) \div g, (s * d) \div g>>

RInt(n) == <<n, 1>>
RZero == <<0, 1>>
RNeg(x) == <<-x[1], x[2]>>
RPos(x) == x[1] > 0

\* the float nearest to n/d * 2^k, for n/d > 0
RECURSIVE FlPos(_, _, _)
FlPos(n, d, k) ==
    IF n >= d * 2^Precision THEN FlPos(n, 2 * d, k + 1)
    ELSE IF n < d * 2^(Precision - 1) THEN FlPos(2 * n, d, k - 1)
    ELSE LET q == n \div d
             r == n % d
             m == IF 2 * r > d \/ (2 * r = d /\ q % 2 = 1) THEN q + 1 ELSE q
         IN  IF k >= 0 THEN Rat(m * 2^k, 1) ELSE Rat(m, 2^(-k))

\* the float nearest to the rational x
Fl(x) ==
    IF x[1] = 0 THEN RZero
    ELSE IF x[1] > 0 THEN FlPos(x[1], x[2], 0)
    ELSE RNeg(FlPos(-x[1], x[2], 0))

\* x + y, x * y and x / y of two floats
RAdd(x, y) == Fl(Rat(x[1] * y[2] + y[1] * x[2], x[2] * y[2]))
RMul(x, y) == Fl(Rat(x[1] * y[1], x[2] * y[2]))
RDiv(x, y) == Fl(Rat(x[1] * y[2], x[2] * y[1]))

\* SQL NULL in a REAL column (Python None)
NULL == <<0, 0>>

----------------------------------------------------------------------------
(* Bags as tables *)

\* DELETE FROM t WHERE P(row)
BagDelete(B, P(_)) == [r \in {x \in DOMAIN B : ~P(x)} |-> B[r]]

\* the rows of t that satisfy P, with their multiplicities
BagSelect(B, P(_)) == [r \in {x \in DOMAIN B : P(x)} |-> B[r]]

\* INSERT INTO t VALUES row
BagInsert(B, r) == B (+) SetToBag({r})

\* UPDATE t SET ... WHERE P(row), F(row) the row after the SET
BagUpdate(B, P(_), F(_)) == BagDelete(B, P) (+) BagOfAll(F, BagSelect(B, P))

SetMax(S) == CHOOSE x \in S : \A y \in S : y <= x
SetMin(S) == CHOOSE x \in S : \A y \in S : x <= y

\* sorted(S) for a finite set of integers
RECURSIVE SortedSeq(_)
SortedSeq(S) ==
    IF S = {} THEN <<>>
    ELSE LET m == SetMin(S) IN <<m>> \o SortedSeq(S \ {m})

\* the sum of f over the finite set S
RECURSIVE SumOf(_, _)
SumOf(S, f) ==
    IF S = {} THEN RZero
    ELSE LET x == CHOOSE y \in S : TRUE
         IN  RAdd(f[x], SumOf(S \ {x}, f))

----------------------------------------------------------------------------
(* The database file and a connection to it *)

\* statistics_meta: statistic_id -> id.  The handlers only read it.
statistics_meta == [energy |-> 11, cost |-> 12]

\* sqlite3.connect(...): a connection sees the committed tables; its writes
\* go to a pending transaction (work) until commit.
Connect(disk) == [open |-> TRUE, opened |-> 1, disk |-> disk, work |-> disk]

\* no connection was made (a return before connect, or connect raised)
NoConn(disk) == [open |-> FALSE, opened |-> 0, disk |-> disk, work |-> disk]

\* conn.commit()
Commit(conn) == [conn EXCEPT !.disk = conn.work]

\* conn.close(): the pending transaction is rolled back
Close(conn) == [conn EXCEPT !.open = FALSE, !.work = conn.disk]

\* a handler's return: the connection as it leaves it, and the response
Return(conn, status, body) == [conn |-> conn, status |-> status, body |-> body]

\* the handler without its conn.close()
ExceptLeaking(conn) == Return(conn, 500, [error |-> "exception"])

\* except Exception: if 'conn' in locals(): conn.close(); return error, 500
Except(conn) == Return(Close(conn), 500, [error |-> "exception"])

----------------------------------------------------------------------------
(* Values of the request payloads *)

\* a missing (or empty) string parameter: "not entity_id" is true of both
NoStr == ""

\* an ISO timestamp parameter: missing, malformed, or denoting v epoch seconds
NoIso == [k |-> "none", v |-> 0]
BadIso == [k |-> "bad", v |-> 0]
Iso(t) == [k |-> "iso", v |-> t]

\* CAST(state AS REAL) of SQLite: the value of the longest numeric prefix,
\* 0.0 when there is none
CastReal(s) ==
    CASE s = "2" -> RInt(2)
      [] s = "3" -> RInt(3)
      [] s = "1x" -> RInt(1)
      [] s = "-1" -> RInt(-1)
      [] OTHER -> RZero

\* float(state_str) of Python raises ValueError unless the whole string is
\* a number
FloatParses(s) == s \in {"2", "3", "-1", "0", "0.0"}

Float(s) ==
    CASE s = "2" -> RInt(2)
      [] s = "3" -> RInt(3)
      [] s = "-1" -> RInt(-1)
      [] OTHER -> RZero

----------------------------------------------------------------------------
(* backfill_state: record one raw reading *)

\* cursor.lastrowid of an INSERT INTO states_meta: one more than the largest
NewMetadataId(meta) ==
    IF DOMAIN meta = {} THEN 1
    ELSE SetMax({meta[e] : e \in DOMAIN meta}) + 1

\* SELECT metadata_id FROM states_meta ..., INSERT when there is none
GetOrCreateMeta(conn, entity_id) ==
    IF entity_id \in DOMAIN conn.work.states_meta THEN conn
    ELSE [conn EXCEPT !.work.states_meta =
            [e \in DOMAIN conn.work.states_meta \cup {entity_id} |->
                IF e = entity_id THEN NewMetadataId(conn.work.states_meta)
                ELSE conn.work.states_meta[e]]]

\* the duplicate check without its metadata_id condition
IsDuplicateAnyEntity(rows, metadata_id, ts) ==
    \E r \in DOMAIN rows : r.last_changed_ts = ts

\* SELECT state_id FROM states WHERE metadata_id = ? AND last_changed_ts = ?
IsDuplicate(rows, metadata_id, ts) ==
    \E r \in DOMAIN rows :
        r.metadata_id = metadata_id /\ r.last_changed_ts = ts

\* INSERT INTO states (metadata_id, state, last_changed_ts, last_updated_ts,
\* attributes)
InsertState(conn, metadata_id, state, changed, updated) ==
    [conn EXCEPT !.work.states =
        BagInsert(conn.work.states,
                  [metadata_id |-> metadata_id, state |-> state,
                   last_changed_ts |-> changed, last_updated_ts |-> updated,
                   attributes |-> "unit_of_measurement: kWh"])]

\* fail names the statement at which the storage raises, "none" for no error
backfill_state(disk, data, fail) ==
    LET last_updated ==
            IF data.last_updated.k = "none" THEN data.last_changed
            ELSE data.last_updated
    IN
    IF data.entity_id = NoStr \/ data.state = NoStr
          \/ data.last_changed.k = "none"
    THEN Return(NoConn(disk), 400, [error |-> "Missing required parameters"])
    ELSE IF fail = "connect"
    THEN Return(NoConn(disk), 500, [error |-> "exception"])
    ELSE
    LET conn0 == Connect(disk) IN
    IF data.last_changed.k = "bad" \/ last_updated.k = "bad"
          \/ fail = "lookup"
    THEN Except(conn0)
    ELSE
    LET conn1 == GetOrCreateMeta(conn0, data.entity_id)
        metadata_id == conn1.work.states_meta[data.entity_id]
    IN
    IF fail = "check" THEN Except(conn1)
    ELSE IF IsDuplicate(conn1.work.states, metadata_id, data.last_changed.v)
    THEN Return(Close(conn1), 200,
                [status |-> "skipped", reason |-> "duplicate"])
    ELSE
    LET conn2 == InsertState(conn1, metadata_id, data.state,
                             data.last_changed.v, last_updated.v)
    IN
    IF fail = "commit" THEN Except(conn2)
    ELSE Return(Close(Commit(conn2)), 200, [status |-> "success"])

----------------------------------------------------------------------------
(* generate_statistics: aggregate the raw readings into hourly rows *)

\* the clear with both DELETEs naming the short-interval table
ClearExistingShortTermOnly(conn, stats_id) ==
    [conn EXCEPT
        !.work.statistics_short_term =
            BagDelete(conn.work.statistics_short_term,
                      LAMBDA r : r.metadata_id = stats_id)]

\* the clear followed by a commit of its own
ClearExistingCommitted(conn, stats_id) ==
    Commit([conn EXCEPT
        !.work.statistics =
            BagDelete(conn.work.statistics,
                      LAMBDA r : r.metadata_id = stats_id),
        !.work.statistics_short_term =
            BagDelete(conn.work.statistics_short_term,
                      LAMBDA r : r.metadata_id = stats_id)])

\* the clear left out
ClearExistingSkipped(conn, stats_id) == conn

\* the clear with both DELETEs lacking their WHERE clause
ClearExistingAllSeries(conn, stats_id) ==
    [conn EXCEPT !.work.statistics = EmptyBag,
                 !.work.statistics_short_term = EmptyBag]

\* DELETE FROM statistics WHERE metadata_id = ?,
\* DELETE FROM statistics_short_term WHERE metadata_id = ?
ClearExisting(conn, stats_id) ==
    [conn EXCEPT
        !.work.statistics =
            BagDelete(conn.work.statistics,
                      LAMBDA r : r.metadata_id = stats_id),
        !.work.statistics_short_term =
            BagDelete(conn.work.statistics_short_term,
                      LAMBDA r : r.metadata_id = stats_id)]

\* the WHERE clause of the SELECT over states
IsValidState(r, metadata_id) ==
    /\ r.metadata_id = metadata_id
    /\ r.last_changed_ts \in Int
    /\ r.state \notin {"unknown", "unavailable", "0.0", "0"}
    /\ RPos(CastReal(r.state))

\* the rows the SELECT returns
ValidStates(rows, metadata_id) ==
    {r \in DOMAIN rows : IsValidState(r, metadata_id)}

\* hour_ts = int(ts // 3600 * 3600)
HourOf(ts) == (ts \div HourSeconds) * HourSeconds

\* the last row of a bucket in the order of the SELECT (ORDER BY
\* last_changed_ts); rows with equal timestamps come in an order the
\* storage chooses
LatestInHour(valid, hour_ts) ==
    CHOOSE r \in valid :
        /\ HourOf(r.last_changed_ts) = hour_ts
        /\ \A q \in valid : HourOf(q.last_changed_ts) = hour_ts
                                => q.last_changed_ts <= r.last_changed_ts

\* hourly_data with += in place of the assignment
HourlyDataSummed(valid) ==
    [h \in {HourOf(r.last_changed_ts) : r \in valid} |->
        LET rows == {r \in valid : HourOf(r.last_changed_ts) = h}
        IN  SumOf(rows, [r \in rows |-> Float(r.state)])]

\* hourly_data: the loop overwrites the bucket's entry with each row in turn
HourlyData(valid) ==
    [h \in {HourOf(r.last_changed_ts) : r \in valid} |->
        Float(LatestInHour(valid, h).state)]

IsStatRow(r, stats_id, ts) == r.metadata_id = stats_id /\ r.start_ts = ts

\* DELETE FROM statistics WHERE metadata_id = ? AND start_ts >= ? AND
\* start_ts <= ? AND start_ts NOT IN (...)
IsOrphan(r, stats_id, earliest_ts, latest_ts, hours) ==
    /\ r.metadata_id = stats_id
    /\ r.start_ts >= earliest_ts
    /\ r.start_ts <= latest_ts
    /\ r.start_ts \notin hours

\* the pruning under the inverted guard: skipped when clear_existing is unset
DeleteOrphansSkipped(rows, stats_id, hours) == rows

DeleteOrphans(rows, stats_id, hours) ==
    BagDelete(rows, LAMBDA r : IsOrphan(r, stats_id, SetMin(hours),
                                        SetMax(hours), hours))

\* cursor.rowcount of that DELETE
OrphanCount(rows, stats_id, hours) ==
    BagCardinality(BagSelect(rows,
        LAMBDA r : IsOrphan(r, stats_id, SetMin(hours), SetMax(hours), hours)))

\* the loop body without the SELECT: every bucket is inserted
UpsertStatisticInsertOnly(acc, stats_id, hour_ts, hour_consumption) ==
    LET cumulative_sum == RAdd(acc.cumulative, hour_consumption) IN
    [rows |-> BagInsert(acc.rows,
                 [metadata_id |-> stats_id, start_ts |-> hour_ts,
                  created_ts |-> hour_ts, state |-> hour_consumption,
                  sum |-> cumulative_sum]),
     inserted |-> acc.inserted + 1, updated |-> acc.updated,
     cumulative |-> cumulative_sum]

\* the loop body with an UPDATE that sets state and leaves sum as stored
UpsertStatisticStaleSum(acc, stats_id, hour_ts, hour_consumption) ==
    LET cumulative_sum == RAdd(acc.cumulative, hour_consumption) IN
    IF \E r \in DOMAIN acc.rows : IsStatRow(r, stats_id, hour_ts)
    THEN [rows |-> BagUpdate(acc.rows,
                      LAMBDA r : IsStatRow(r, stats_id, hour_ts),
                      LAMBDA r : [r EXCEPT !.state = hour_consumption]),
          inserted |-> acc.inserted, updated |-> acc.updated + 1,
          cumulative |-> cumulative_sum]
    ELSE [rows |-> BagInsert(acc.rows,
                      [metadata_id |-> stats_id, start_ts |-> hour_ts,
                       created_ts |-> hour_ts, state |-> hour_consumption,
                       sum |-> cumulative_sum]),
          inserted |-> acc.inserted + 1, updated |-> acc.updated,
          cumulative |-> cumulative_sum]

\* the loop body without its updated += 1
UpsertStatisticUncounted(acc, stats_id, hour_ts, hour_consumption) ==
    LET cumulative_sum == RAdd(acc.cumulative, hour_consumption) IN
    IF \E r \in DOMAIN acc.rows : IsStatRow(r, stats_id, hour_ts)
    THEN [rows |-> BagUpdate(acc.rows,
                      LAMBDA r : IsStatRow(r, stats_id, hour_ts),
                      LAMBDA r : [r EXCEPT !.state = hour_consumption,
                                           !.sum = cumulative_sum]),
          inserted |-> acc.inserted, updated |-> acc.updated,
          cumulative |-> cumulative_sum]
    ELSE [rows |-> BagInsert(acc.rows,
                      [metadata_id |-> stats_id, start_ts |-> hour_ts,
                       created_ts |-> hour_ts, state |-> hour_consumption,
                       sum |-> cumulative_sum]),
          inserted |-> acc.inserted + 1, updated |-> acc.updated,
          cumulative |-> cumulative_sum]

\* one pass of the loop body: add to the running sum, then UPDATE the
\* bucket's row when the SELECT finds one, INSERT otherwise
UpsertStatistic(acc, stats_id, hour_ts, hour_consumption) ==
    LET cumulative_sum == RAdd(acc.cumulative, hour_consumption) IN
    IF \E r \in DOMAIN acc.rows : IsStatRow(r, stats_id, hour_ts)
    THEN [rows |-> BagUpdate(acc.rows,
                      LAMBDA r : IsStatRow(r, stats_id, hour_ts),
                      LAMBDA r : [r EXCEPT !.state = hour_consumption,
                                           !.sum = cumulative_sum]),
          inserted |-> acc.inserted, updated |-> acc.updated + 1,
          cumulative |-> cumulative_sum]
    ELSE [rows |-> BagInsert(acc.rows,
                      [metadata_id |-> stats_id, start_ts |-> hour_ts,
                       created_ts |-> hour_ts, state |-> hour_consumption,
                       sum |-> cumulative_sum]),
          inserted |-> acc.inserted + 1, updated |-> acc.updated,
          cumulative |-> cumulative_sum]

\* inserted = 0, updated = 0, cumulative_sum = 0.0
StartWalk(rows) ==
    [rows |-> rows, inserted |-> 0, updated |-> 0, cumulative |-> RZero]

\* for hour_ts in sorted_hours: ...
RECURSIVE WalkHours(_, _, _, _)
WalkHours(acc, stats_id, sorted_hours, hourly_data) ==
    IF sorted_hours = <<>> THEN acc
    ELSE WalkHours(UpsertStatistic(acc, stats_id, Head(sorted_hours),
                                   hourly_data[Head(sorted_hours)]),
                   stats_id, Tail(sorted_hours), hourly_data)

generate_statistics(disk, data, fail) ==
    IF data.entity_id = NoStr
    THEN Return(NoConn(disk), 400, [error |-> "entity_id required"])
    ELSE IF fail = "connect"
    THEN Return(NoConn(disk), 500, [error |-> "exception"])
    ELSE
    LET conn0 == Connect(disk) IN
    IF fail = "lookup" THEN Except(conn0)
    ELSE IF data.entity_id \notin DOMAIN statistics_meta
    THEN Return(Close(conn0), 404,
                [error |-> "No statistics metadata found"])
    ELSE IF data.entity_id \notin DOMAIN conn0.work.states_meta
    THEN Return(Close(conn0), 404, [error |-> "No states found"])
    ELSE
    LET stats_metadata_id == statistics_meta[data.entity_id]
        states_metadata_id == conn0.work.states_meta[data.entity_id]
        conn1 == IF data.clear_existing
                 THEN ClearExisting(conn0, stats_metadata_id)
                 ELSE conn0
        valid == ValidStates(conn1.work.states, states_metadata_id)
    IN
    IF fail = "select" THEN Except(conn1)
    ELSE IF valid = {}
    THEN Return(Close(conn1), 404, [error |-> "No valid states found"])
    ELSE IF \E r \in valid : ~FloatParses(r.state)
    THEN Except(conn1)
    ELSE
    LET hourly_data == HourlyData(valid)
        sorted_hours == SortedSeq(DOMAIN hourly_data)
    IN
    IF sorted_hours = <<>>
    THEN Return(Close(conn1), 404, [error |-> "No hourly data found"])
    ELSE
    LET deleted == IF data.clear_existing THEN 0
                   ELSE OrphanCount(conn1.work.statistics, stats_metadata_id,
                                    DOMAIN hourly_data)
        pruned == IF data.clear_existing THEN conn1.work.statistics
                  ELSE DeleteOrphans(conn1.work.statistics,
                                     stats_metadata_id, DOMAIN hourly_data)
        conn2 == [conn1 EXCEPT !.work.statistics = pruned]
        part == WalkHours(StartWalk(pruned), stats_metadata_id,
                          SubSeq(sorted_hours, 1, 1), hourly_data)
        walk == WalkHours(StartWalk(pruned), stats_metadata_id,
                          sorted_hours, hourly_data)
        conn3 == [conn2 EXCEPT !.work.statistics = walk.rows]
    IN
    IF fail = "prune" THEN Except(conn2)
    ELSE IF fail = "upsert"
    THEN Except([conn2 EXCEPT !.work.statistics = part.rows])
    ELSE IF fail = "commit" THEN Except(conn3)
    ELSE Return(Close(Commit(conn3)), 200,
                [status |-> "success", inserted |-> walk.inserted,
                 updated |-> walk.updated, deleted |-> deleted,
                 total_hours |-> Cardinality(DOMAIN hourly_data),
                 final_sum |-> walk.cumulative])

----------------------------------------------------------------------------
(* generate_cost_statistics: derive the cost series from the energy series *)

\* a rate parameter: missing, a JSON number v, a string that float() parses
\* to v, or a string float() rejects
NoRate == [k |-> "none", v |-> RZero]
NumRate(v) == [k |-> "num", v |-> v]
StrRate(v) == [k |-> "str", v |-> v]
BadRate == [k |-> "bad", v |-> RZero]

\* "not rate": None and the number zero are falsy, a non-empty string is not
RateIsFalsy(rate) == rate.k = "none" \/ (rate.k = "num" /\ rate.v = RZero)

\* the join without its ON condition
RatePairsAnyBucket(rows, energy_stats_id, cost_stats_id) ==
    {p \in (DOMAIN rows) \X (DOMAIN rows) :
        /\ p[1].metadata_id = energy_stats_id
        /\ p[2].metadata_id = cost_stats_id
        /\ p[1].state # NULL /\ p[2].state # NULL
        /\ RPos(p[1].state) /\ RPos(p[2].state)}

\* the rows of the join: an energy row and a cost row of the same bucket,
\* both states non-null and positive
RatePairs(rows, energy_stats_id, cost_stats_id) ==
    {p \in (DOMAIN rows) \X (DOMAIN rows) :
        /\ p[1].metadata_id = energy_stats_id
        /\ p[2].metadata_id = cost_stats_id
        /\ p[1].start_ts = p[2].start_ts
        /\ p[1].state # NULL /\ p[2].state # NULL
        /\ RPos(p[1].state) /\ RPos(p[2].state)}

\* the rate under ORDER BY e.start_ts ASC
AutoRateEarliest(pairs) ==
    LET p == CHOOSE x \in pairs :
                \A y \in pairs : x[1].start_ts <= y[1].start_ts
    IN  RDiv(p[2].state, p[1].state)

\* ORDER BY e.start_ts DESC LIMIT 1, then float(hour_cost) / float(energy_kwh)
AutoRate(pairs) ==
    LET p == CHOOSE x \in pairs :
                \A y \in pairs : y[1].start_ts <= x[1].start_ts
    IN  RDiv(p[2].state, p[1].state)

\* SELECT start_ts, state FROM statistics WHERE metadata_id = ?
\* ORDER BY start_ts, as a list of rows (a row held twice comes twice)
RECURSIVE OrderedRows(_)
OrderedRows(B) ==
    IF DOMAIN B = {} THEN <<>>
    ELSE LET r == CHOOSE x \in DOMAIN B :
                     \A y \in DOMAIN B : x.start_ts <= y.start_ts
         IN  <<r>> \o OrderedRows(B (-) SetToBag({r}))

EnergyStats(rows, energy_stats_id) ==
    OrderedRows(BagSelect(rows, LAMBDA r : r.metadata_id = energy_stats_id))

\* the pruning without its two range conditions
DeleteCostOrphansAnywhere(rows, cost_stats_id, energy_timestamps) ==
    BagDelete(rows, LAMBDA r : /\ r.metadata_id = cost_stats_id
                               /\ r.start_ts \notin energy_timestamps)

\* DELETE FROM statistics WHERE metadata_id = ? AND start_ts >= ? AND
\* start_ts <= ? AND start_ts NOT IN (...), for the cost series
DeleteCostOrphans(rows, cost_stats_id, energy_timestamps) ==
    BagDelete(rows, LAMBDA r : IsOrphan(r, cost_stats_id,
                                        SetMin(energy_timestamps),
                                        SetMax(energy_timestamps),
                                        energy_timestamps))

\* the loop body without the SELECT: every bucket is inserted
UpsertCostInsertOnly(acc, cost_stats_id, start_ts, energy_kwh, rate) ==
    IF energy_kwh = NULL THEN acc
    ELSE
    LET hour_cost == RMul(energy_kwh, rate)
        cumulative_cost == RAdd(acc.cumulative, hour_cost)
    IN  [rows |-> BagInsert(acc.rows,
                     [metadata_id |-> cost_stats_id, start_ts |-> start_ts,
                      created_ts |-> start_ts, state |-> hour_cost,
                      sum |-> cumulative_cost]),
         inserted |-> acc.inserted + 1, updated |-> acc.updated,
         cumulative |-> cumulative_cost]

\* one pass of the loop body over an energy row
UpsertCost(acc, cost_stats_id, start_ts, energy_kwh, rate) ==
    IF energy_kwh = NULL THEN acc
    ELSE
    LET hour_cost == RMul(energy_kwh, rate)
        cumulative_cost == RAdd(acc.cumulative, hour_cost)
    IN
    IF \E r \in DOMAIN acc.rows : IsStatRow(r, cost_stats_id, start_ts)
    THEN [rows |-> BagUpdate(acc.rows,
                      LAMBDA r : IsStatRow(r, cost_stats_id, start_ts),
                      LAMBDA r : [r EXCEPT !.state = hour_cost,
                                           !.sum = cumulative_cost]),
          inserted |-> acc.inserted, updated |-> acc.updated + 1,
          cumulative |-> cumulative_cost]
    ELSE [rows |-> BagInsert(acc.rows,
                      [metadata_id |-> cost_stats_id, start_ts |-> start_ts,
                       created_ts |-> start_ts, state |-> hour_cost,
                       sum |-> cumulative_cost]),
          inserted |-> acc.inserted + 1, updated |-> acc.updated,
          cumulative |-> cumulative_cost]

\* for start_ts, energy_kwh in energy_stats: ...
RECURSIVE WalkEnergy(_, _, _, _)
WalkEnergy(acc, cost_stats_id, energy_stats, rate) ==
    IF energy_stats = <<>> THEN acc
    ELSE WalkEnergy(UpsertCost(acc, cost_stats_id,
                               Head(energy_stats).start_ts,
                               Head(energy_stats).state, rate),
                    cost_stats_id, Tail(energy_stats), rate)

generate_cost_statistics(disk, data, fail) ==
    IF data.energy_entity_id = NoStr \/ data.cost_entity_id = NoStr
    THEN Return(NoConn(disk), 400,
                [error |-> "energy_entity_id and cost_entity_id required"])
    ELSE IF fail = "connect"
    THEN Return(NoConn(disk), 500, [error |-> "exception"])
    ELSE
    LET conn0 == Connect(disk) IN
    IF fail = "lookup" THEN Except(conn0)
    ELSE IF data.energy_entity_id \notin DOMAIN statistics_meta
    THEN Return(Close(conn0), 404,
                [error |-> "No statistics metadata found for energy"])
    ELSE IF data.cost_entity_id \notin DOMAIN statistics_meta
    THEN Return(Close(conn0), 404,
                [error |-> "No statistics metadata found for cost"])
    ELSE
    LET energy_stats_id == statistics_meta[data.energy_entity_id]
        cost_stats_id == statistics_meta[data.cost_entity_id]
        conn1 == IF data.clear_existing
                 THEN ClearExisting(conn0, cost_stats_id)
                 ELSE conn0
        pairs == RatePairs(conn1.work.statistics, energy_stats_id,
                           cost_stats_id)
    IN
    IF fail = "select" /\ (data.clear_existing \/ RateIsFalsy(data.rate))
    THEN Except(conn1)
    ELSE IF RateIsFalsy(data.rate) /\ pairs = {}
    THEN Return(Close(conn1), 400,
                [error |-> "Could not auto-calculate rate"])
    ELSE IF ~RateIsFalsy(data.rate) /\ data.rate.k = "bad"
    THEN Return(Close(conn1), 400, [error |-> "rate must be a number"])
    ELSE
    LET rate == IF RateIsFalsy(data.rate) THEN AutoRate(pairs)
                ELSE data.rate.v
        energy_stats == EnergyStats(conn1.work.statistics, energy_stats_id)
    IN
    IF fail = "select" THEN Except(conn1)
    ELSE IF energy_stats = <<>>
    THEN Return(Close(conn1), 404, [error |-> "No energy statistics found"])
    ELSE
    LET energy_timestamps ==
            {energy_stats[i].start_ts : i \in 1..Len(energy_stats)}
        pruned == IF data.clear_existing THEN conn1.work.statistics
                  ELSE DeleteCostOrphans(conn1.work.statistics,
                                         cost_stats_id, energy_timestamps)
        conn2 == [conn1 EXCEPT !.work.statistics = pruned]
        part == WalkEnergy(StartWalk(pruned), cost_stats_id,
                           SubSeq(energy_stats, 1, 1), rate)
        walk == WalkEnergy(StartWalk(pruned), cost_stats_id,
                           energy_stats, rate)
        conn3 == [conn2 EXCEPT !.work.statistics = walk.rows]
    IN
    IF fail = "prune" THEN Except(conn2)
    ELSE IF fail = "upsert"
    THEN Except([conn2 EXCEPT !.work.statistics = part.rows])
    ELSE IF fail = "commit" THEN Except(conn3)
    ELSE Return(Close(Commit(conn3)), 200,
                [status |-> "success", inserted |-> walk.inserted,
                 updated |-> walk.updated,
                 total_hours |-> Len(energy_stats),
                 total_cost |-> walk.cumulative, rate_used |-> rate])

----------------------------------------------------------------------------
(* The requests and the tables the model draws from *)

\* observed timestamps (epoch seconds); 3600 and 5400 share an hour bucket
Timestamps == {0, 3600, 5400, 7200}

Buckets == {HourOf(t) : t \in Timestamps}

\* values of the state column: two readings, a sentinel, and a string that
\* CAST reads as 1.0 and float() rejects
ReadingStates == {"2", "3", "-1", "unknown", "1x"}

\* point value and cumulative sum of a statistics row written by the host
StatValues ==
    {[state |-> NULL, sum |-> NULL],
     [state |-> RZero, sum |-> RInt(9)],
     [state |-> RInt(4), sum |-> RInt(9)]}

\* point value and cumulative sum of a cost row written by the host
CostValues ==
    {[state |-> NULL, sum |-> NULL],
     [state |-> RInt(-1), sum |-> RInt(9)],
     [state |-> RInt(2), sum |-> RInt(9)],
     [state |-> RInt(4), sum |-> RInt(9)]}

\* the values of a row the aggregator is about to overwrite or prune
AggValues == {[state |-> RInt(4), sum |-> RInt(9)]}

Absent == [state |-> NULL, sum |-> RZero]

Present(f) == {k \in DOMAIN f : f[k] # Absent}

\* the statistics rows of a choice f: (series id, bucket) -> values or Absent
StatRows(f) ==
    SetToBag({[metadata_id |-> k[1], start_ts |-> k[2],
               created_ts |-> k[2] + HourSeconds,
               state |-> f[k].state, sum |-> f[k].sum] : k \in Present(f)})

\* at most n rows per series, at most one per series and bucket
StatTables(series, values, n) ==
    {StatRows(f) :
        f \in {g \in [series \X Buckets -> values \cup {Absent}] :
                 \A id \in series :
                    Cardinality({k \in Present(g) : k[1] = id}) <= n}}

\* the raw readings of a choice f: (metadata_id, timestamp) -> state or ""
ReadingRows(f) ==
    SetToBag({[metadata_id |-> k[1], state |-> f[k],
               last_changed_ts |-> k[2], last_updated_ts |-> k[2],
               attributes |-> "unit_of_measurement: kWh"] :
              k \in {x \in DOMAIN f : f[x] # NoStr}})

\* at most n readings, at most one per entity and observed timestamp
ReadingTables(ids, n) ==
    {ReadingRows(f) :
        f \in {g \in [ids \X Timestamps -> ReadingStates \cup {NoStr}] :
                 Cardinality({x \in DOMAIN g : g[x] # NoStr}) <= n}}

\* rows of the short-interval table, one per series
ShortTermRows ==
    SetToBag({[metadata_id |-> id, start_ts |-> 0, state |-> RInt(4),
               sum |-> RInt(9)] : id \in {statistics_meta.energy,
                                           statistics_meta.cost}})

NoCall == [op |-> "none", args |-> <<>>, status |-> 0, body |-> <<>>,
           opened |-> 0, fault |-> FALSE]

\* the committed tables as one value
Disk ==
    [states_meta |-> states_meta, states |-> states,
     statistics |-> statistics,
     statistics_short_term |-> statistics_short_term]

\* the state after a handler returned r; fault tells that the storage was
\* set to raise during the call
Install(r, op, args, fault) ==
    /\ states_meta' = r.conn.disk.states_meta
    /\ states' = r.conn.disk.states
    /\ statistics' = r.conn.disk.statistics
    /\ statistics_short_term' = r.conn.disk.statistics_short_term
    /\ openConns' = openConns + (IF r.conn.open THEN 1 ELSE 0)
    /\ prev' = Disk
    /\ last' = [op |-> op, args |-> args, status |-> r.status,
                body |-> r.body, opened |-> r.conn.opened, fault |-> fault]
    /\ tick' = 1 - tick

BackfillData ==
    {[entity_id |-> e, state |-> s, last_changed |-> Iso(t),
      last_updated |-> NoIso] :
        e \in {"energy", "cost"}, s \in {"2", "3"}, t \in Timestamps}
    \cup {[entity_id |-> NoStr, state |-> "2", last_changed |-> Iso(0),
           last_updated |-> NoIso],
          [entity_id |-> "energy", state |-> NoStr, last_changed |-> Iso(0),
           last_updated |-> NoIso],
          [entity_id |-> "energy", state |-> "2", last_changed |-> NoIso,
           last_updated |-> NoIso],
          [entity_id |-> "energy", state |-> "2", last_changed |-> BadIso,
           last_updated |-> NoIso],
          [entity_id |-> "energy", state |-> "2", last_changed |-> Iso(0),
           last_updated |-> BadIso],
          [entity_id |-> "energy", state |-> "2", last_changed |-> Iso(0),
           last_updated |-> Iso(5400)]}

BackfillFails == {"none", "connect", "lookup", "check", "commit"}

GenerateData ==
    [entity_id : {"energy", "cost", "ghost", NoStr},
     clear_existing : BOOLEAN]

GenerateFails ==
    {"none", "connect", "lookup", "select", "prune", "upsert", "commit"}

\* energy into cost at every rate; the energy series onto itself; and the
\* requests that name a series that does not exist, or none
CostData ==
    [energy_entity_id : {"energy"}, cost_entity_id : {"cost"},
     rate : {NoRate, NumRate(RZero), NumRate(RInt(7)), BadRate},
     clear_existing : BOOLEAN]
    \cup
    [energy_entity_id : {"energy"}, cost_entity_id : {"energy"},
     rate : {NoRate, StrRate(RInt(1))}, clear_existing : BOOLEAN]
    \cup
    {[energy_entity_id |-> p[1], cost_entity_id |-> p[2],
      rate |-> NumRate(RInt(7)), clear_existing |-> FALSE] :
        p \in {<<"ghost", "cost">>, <<"energy", "ghost">>,
               <<NoStr, "cost">>, <<"energy", NoStr>>}}

\* a storage error that is set to strike ends the call with the 500 response
Struck(r, fail) == fail = "none" \/ r.status = 500

\* POST /api/appdaemon/backfill_state
BackfillState(fails) ==
    \E data \in BackfillData, fail \in fails :
        \E r \in {backfill_state(Disk, data, fail)} :
            Struck(r, fail)
                /\ Install(r, "backfill_state", data, fail # "none")

\* POST /api/appdaemon/generate_statistics with a payload of requests
GenerateStatisticsOf(requests, fails) ==
    \E data \in requests, fail \in fails :
        \E r \in {generate_statistics(Disk, data, fail)} :
            Struck(r, fail)
                /\ Install(r, "generate_statistics", data, fail # "none")

GenerateStatistics(fails) == GenerateStatisticsOf(GenerateData, fails)

\* POST /api/appdaemon/generate_cost_statistics with a payload of requests
GenerateCostStatisticsOf(requests, fails) ==
    \E data \in requests, fail \in fails :
        \E r \in {generate_cost_statistics(Disk, data, fail)} :
            Struck(r, fail)
                /\ Install(r, "generate_cost_statistics", data,
                           fail # "none")

GenerateCostStatistics(fails) == GenerateCostStatisticsOf(CostData, fails)

InitCommon ==
    /\ openConns = 0
    /\ prev = Disk
    /\ last = NoCall
    /\ tick = 0

----------------------------------------------------------------------------
(* The recorder alone, from an empty history, storage errors included *)

InitRec ==
    /\ states_meta = <<>>
    /\ states = EmptyBag
    /\ statistics = EmptyBag
    /\ statistics_short_term = EmptyBag
    /\ InitCommon

RecordReading ==
    /\ BagCardinality(states) < MaxReadings
    /\ BackfillState(BackfillFails)

SpecRec == InitRec /\ [][RecordReading]_vars

----------------------------------------------------------------------------
(* The aggregator alone, any number of runs over a history that does not
   change, the storage working *)

InitAgg ==
    /\ \E other \in BOOLEAN :
        /\ states_meta = IF other THEN [energy |-> 1, cost |-> 2]
                         ELSE [energy |-> 1]
        /\ \E t \in ReadingTables({1}, MaxInitReadings) :
              states = IF other
                       THEN t (+) ReadingRows([k \in {<<2, 0>>} |-> "3"])
                       ELSE t
        /\ \E t \in StatTables({statistics_meta.energy}, AggValues,
                               MaxInitRows) :
              statistics =
                IF other
                THEN t (+) StatRows([k \in {<<statistics_meta.cost, 0>>} |->
                                        [state |-> RInt(4), sum |-> RInt(9)]])
                ELSE t
        /\ statistics_short_term = IF other THEN ShortTermRows ELSE EmptyBag
    /\ InitCommon

\* aggregate a series that exists
Aggregate ==
    GenerateStatisticsOf(
        {d \in GenerateData : d.entity_id \in DOMAIN statistics_meta},
        {"none"})

SpecAgg == InitAgg /\ [][Aggregate]_vars

----------------------------------------------------------------------------
(* The cost deriver alone, any number of runs over energy and cost series
   the host wrote, the storage working *)

InitCost ==
    /\ states_meta = <<>>
    /\ states = EmptyBag
    /\ \E te \in StatTables({statistics_meta.energy}, StatValues,
                            MaxInitRows),
          tc \in StatTables({statistics_meta.cost}, CostValues,
                            MaxInitRows) :
          statistics = te (+) tc
    /\ statistics_short_term = ShortTermRows
    /\ InitCommon

DeriveCost == GenerateCostStatistics({"none"})

SpecCost == InitCost /\ [][DeriveCost]_vars

----------------------------------------------------------------------------
(* The cost deriver run again and again over an energy series the host
   wrote and cost rows of one value, the storage working *)

\* point values of the energy rows: those above and one that is no power
\* of two
EnergyValues == StatValues \cup {[state |-> RInt(3), sum |-> RInt(9)]}

InitRederive ==
    /\ states_meta = <<>>
    /\ states = EmptyBag
    /\ \E te \in StatTables({statistics_meta.energy}, EnergyValues,
                            MaxInitRows),
          tc \in StatTables({statistics_meta.cost}, AggValues,
                            MaxInitRows) :
          statistics = te (+) tc
    /\ statistics_short_term = ShortTermRows
    /\ InitCommon

\* derive at a rate, or without one
Rederive ==
    GenerateCostStatisticsOf(
        {d \in CostData :
            d.rate \in {NoRate, NumRate(RInt(7)), StrRate(RInt(1))}
                /\ d.energy_entity_id = "energy"
                /\ d.cost_entity_id \in DOMAIN statistics_meta},
        {"none"})

SpecRederive == InitRederive /\ [][Rederive]_vars

----------------------------------------------------------------------------
(* The aggregator and the cost deriver in any order, any number of times,
   over readings of one value and rows of both series, the storage
   working *)

InitStats ==
    /\ states_meta = [energy |-> 1]
    /\ states \in {t \in ReadingTables({1}, MaxInitReadings) :
                      \A r \in DOMAIN t : r.state = "2"}
    /\ statistics \in StatTables({statistics_meta.energy,
                                  statistics_meta.cost},
                                 AggValues, MaxInitRows)
    /\ statistics_short_term = ShortTermRows
    /\ InitCommon

\* aggregate the energy readings
AggregateEnergy ==
    GenerateStatisticsOf({d \in GenerateData : d.entity_id = "energy"},
                         {"none"})

\* derive the cost series from the energy series, at a rate or without
DeriveEnergyCost ==
    GenerateCostStatisticsOf(
        {d \in CostData : /\ d.energy_entity_id = "energy"
                          /\ d.cost_entity_id = "cost"
                          /\ d.rate \in {NoRate, NumRate(RInt(7))}},
        {"none"})

SpecStats == InitStats /\ [][AggregateEnergy \/ DeriveEnergyCost]_vars

----------------------------------------------------------------------------
(* The application: one request of any kind against any of the databases
   above, storage errors included *)

Init == InitAgg \/ InitCost

RequestBackfill == tick = 0 /\ BackfillState(BackfillFails)

RequestStatistics == tick = 0 /\ GenerateStatistics(GenerateFails)

RequestCost == tick = 0 /\ GenerateCostStatistics(GenerateFails)

Next == RequestBackfill \/ RequestStatistics \/ RequestCost

Spec == Init /\ [][Next]_vars

----------------------------------------------------------------------------
(* What the properties below read off a state *)

\* the rows of one series
Series(rows, id) == BagSelect(rows, LAMBDA r : r.metadata_id = id)

\* the last call was op and returned the success response
Succeeded(op) == last.op = op /\ last.status = 200

\* entity e had a raw reading observed at ts
HadReading(disk, e, ts) ==
    /\ e \in DOMAIN disk.states_meta
    /\ \E r \in DOMAIN disk.states :
          r.metadata_id = disk.states_meta[e] /\ r.last_changed_ts = ts

\* a record request with every required parameter and parseable timestamps
WellFormed(data) ==
    /\ data.entity_id # NoStr /\ data.state # NoStr
    /\ data.last_changed.k = "iso" /\ data.last_updated.k # "bad"

----------------------------------------------------------------------------
(* C1: after any sequence of record calls the raw readings hold at most one
   row per entity and observed timestamp; a call for a pair that already has
   a reading answers skipped/duplicate and writes nothing, and the first
   call for a pair answers success and adds exactly that one reading (the
   storage working and the request well formed). *)
C1_OneReadingPerTimestamp ==
    /\ \A r \in DOMAIN states :
          /\ states[r] = 1
          /\ \A q \in DOMAIN states :
                (q.metadata_id = r.metadata_id
                    /\ q.last_changed_ts = r.last_changed_ts) => q = r
    /\ (last.op = "backfill_state" /\ ~last.fault /\ WellFormed(last.args)) =>
          /\ last.status = 200
          /\ IF HadReading(prev, last.args.entity_id,
                           last.args.last_changed.v)
             THEN /\ last.body.status = "skipped"
                  /\ last.body.reason = "duplicate"
                  /\ Disk = prev
             ELSE /\ last.body.status = "success"
                  /\ \E r \in DOMAIN states :
                        /\ r.metadata_id = states_meta[last.args.entity_id]
                        /\ r.last_changed_ts = last.args.last_changed.v
                        /\ r.state = last.args.state
                        /\ states = BagInsert(prev.states, r)

\* a second reading for a pair, with another value, was skipped
C1_Witness ==
    /\ last.op = "backfill_state" /\ last.status = 200
    /\ last.body.status = "skipped"
    /\ HadReading(prev, last.args.entity_id, last.args.last_changed.v)
    /\ \E r \in DOMAIN states :
          /\ r.last_changed_ts = last.args.last_changed.v
          /\ r.state # last.args.state

----------------------------------------------------------------------------
(* C2: a successful aggregate run leaves, for every hour bucket it computed,
   a row whose cumulative sum is the sum of the point values of the computed
   buckets up to and including it, whatever sums were stored before, and
   reports as final_sum the sum of the point values of all computed
   buckets. *)

\* the buckets the last aggregate run computed
AggBuckets ==
    {HourOf(r.last_changed_ts) :
        r \in ValidStates(prev.states,
                          prev.states_meta[last.args.entity_id])}

AggSeries == statistics_meta[last.args.entity_id]

\* the stored point value of each computed bucket
AggPoints ==
    [h \in AggBuckets |->
        (CHOOSE r \in DOMAIN statistics : IsStatRow(r, AggSeries, h)).state]

C2_CumulativeSums ==
    Succeeded("generate_statistics") =>
        /\ \A h \in AggBuckets :
              \E r \in DOMAIN statistics : IsStatRow(r, AggSeries, h)
        /\ \A r \in DOMAIN Series(statistics, AggSeries) :
              r.start_ts \in AggBuckets =>
                r.sum = SumOf({g \in AggBuckets : g <= r.start_ts}, AggPoints)
        /\ last.body.final_sum = SumOf(AggBuckets, AggPoints)

\* two buckets were computed over rows that carried another sum
C2_Witness ==
    /\ Succeeded("generate_statistics")
    /\ ~last.args.clear_existing
    /\ Cardinality(AggBuckets) >= 2
    /\ \A h \in AggBuckets :
          \E r \in DOMAIN prev.statistics :
              IsStatRow(r, AggSeries, h) /\ r.sum = RInt(9)

----------------------------------------------------------------------------
(* C3: a second aggregate run for the same entity right after a successful
   one, the raw readings unchanged, leaves every row of the series with the
   point value and cumulative sum it had, and reports inserted = 0,
   deleted = 0 and updated = the number of buckets. *)

\* bucket, point value, cumulative sum and multiplicity of a series' rows
Values(rows, id) ==
    {<<r.start_ts, r.state, r.sum, rows[r]>> : r \in DOMAIN Series(rows, id)}

\* this step is an aggregate run that follows a successful one for the same
\* entity
SecondAggregate ==
    /\ Succeeded("generate_statistics")
    /\ tick' # tick
    /\ last'.op = "generate_statistics" /\ last'.status = 200
    /\ last'.args.entity_id = last.args.entity_id
    /\ states' = states

SameCounts ==
    /\ last'.body.inserted = 0
    /\ last'.body.deleted = 0
    /\ last'.body.updated = last'.body.total_hours

\* C3 as claimed: whatever the second request's clear_existing
C3_SecondRunInsertsNothing ==
    [][SecondAggregate =>
          /\ Values(statistics', AggSeries) = Values(statistics, AggSeries)
          /\ SameCounts]_vars

\* the values of the rows of the buckets the first run computed
ComputedValues(rows) ==
    {v \in Values(rows, AggSeries) : v[1] \in AggBuckets}

\* C3 as amended: the rows of the computed buckets hold the same values
\* after any second run; a second run that does not set clear_existing
\* leaves every row of the series as it was and reports those counts
C3_SecondRunSameValues ==
    [][SecondAggregate =>
          /\ ComputedValues(statistics') = ComputedValues(statistics)
          /\ ~last'.args.clear_existing =>
                /\ Values(statistics', AggSeries)
                      = Values(statistics, AggSeries)
                /\ SameCounts]_vars

\* a run that found every one of its two or more buckets stored as computed
C3_Witness ==
    /\ Succeeded("generate_statistics")
    /\ ~last.args.clear_existing
    /\ last.body.inserted = 0 /\ last.body.updated >= 2
    /\ prev.statistics = statistics

----------------------------------------------------------------------------
(* C4: a successful derive-cost run with a supplied rate R reports
   rate_used = R and total_cost = R times the sum of the point values of
   the energy rows. *)

EnergySeries == statistics_meta[last.args.energy_entity_id]

CostSeries == statistics_meta[last.args.cost_entity_id]

\* the sum of the point values of the energy rows the run read (a null
\* value adds nothing)
EnergyTotal ==
    LET rows == DOMAIN Series(prev.statistics, EnergySeries)
    IN  SumOf(rows, [r \in rows |->
                        IF r.state = NULL THEN RZero ELSE r.state])

RateSupplied == last.args.rate.k \in {"num", "str"}

\* C4 as claimed: for every supplied rate
C4_TotalCostIsRateTimesEnergy ==
    (Succeeded("generate_cost_statistics") /\ RateSupplied) =>
        /\ last.body.rate_used = last.args.rate.v
        /\ last.body.total_cost = RMul(last.args.rate.v, EnergyTotal)

\* what holds of the code: for every supplied rate but the number zero
C4_TotalCostForTruthyRate ==
    (Succeeded("generate_cost_statistics") /\ RateSupplied
        /\ last.args.rate # NumRate(RZero)) =>
        /\ last.body.rate_used = last.args.rate.v
        /\ last.body.total_cost = RMul(last.args.rate.v, EnergyTotal)

----------------------------------------------------------------------------
(* C5: after a successful aggregate run with clear_existing, the series
   holds exactly one row per computed bucket and no other row, and has no
   row in the short-interval table. *)
C5_ClearLeavesComputedBuckets ==
    (Succeeded("generate_statistics") /\ last.args.clear_existing) =>
        /\ \A r \in DOMAIN Series(statistics, AggSeries) :
              r.start_ts \in AggBuckets /\ statistics[r] = 1
        /\ \A h \in AggBuckets :
              Cardinality({r \in DOMAIN statistics :
                              IsStatRow(r, AggSeries, h)}) = 1
        /\ Series(statistics_short_term, AggSeries) = EmptyBag

\* the series had a row of a bucket the run did not compute, and a
\* short-interval row
C5_Witness ==
    /\ Succeeded("generate_statistics") /\ last.args.clear_existing
    /\ \E r \in DOMAIN Series(prev.statistics, AggSeries) :
          r.start_ts \notin AggBuckets
    /\ Series(prev.statistics_short_term, AggSeries) # EmptyBag

----------------------------------------------------------------------------
(* C6: after a successful aggregate run without clear_existing, every row
   of the series within [earliest, latest computed bucket] belongs to a
   computed bucket, and deleted counts the rows of that range that were
   removed for having none. *)

InAggRange(ts) == SetMin(AggBuckets) <= ts /\ ts <= SetMax(AggBuckets)

C6_InRangeOrphansPruned ==
    (Succeeded("generate_statistics") /\ ~last.args.clear_existing) =>
        /\ \A r \in DOMAIN Series(statistics, AggSeries) :
              InAggRange(r.start_ts) => r.start_ts \in AggBuckets
        /\ last.body.deleted =
              BagCardinality(BagSelect(Series(prev.statistics, AggSeries),
                  LAMBDA r : InAggRange(r.start_ts)
                                /\ r.start_ts \notin AggBuckets))

\* a row between two computed buckets was removed
C6_Witness ==
    /\ Succeeded("generate_statistics") /\ ~last.args.clear_existing
    /\ last.body.deleted >= 1
    /\ Cardinality(AggBuckets) >= 2

----------------------------------------------------------------------------
(* C7: after a successful aggregate or derive-cost run, no row of the target
   series lies outside the computed bucket range without a source bucket. *)

AggregateOrCost ==
    Succeeded("generate_statistics") \/ Succeeded("generate_cost_statistics")

\* the series the last run wrote
RunSeries ==
    IF last.op = "generate_statistics" THEN AggSeries ELSE CostSeries

\* the source buckets of the last run: the computed hours of an aggregate
\* run, the buckets of the energy rows of a derive-cost run
RunBuckets ==
    IF last.op = "generate_statistics" THEN AggBuckets
    ELSE {r.start_ts : r \in DOMAIN Series(prev.statistics, EnergySeries)}

OutOfRange(ts) == ts < SetMin(RunBuckets) \/ ts > SetMax(RunBuckets)

\* C7 as claimed
C7_NoOutOfRangeOrphans ==
    AggregateOrCost =>
        \A r \in DOMAIN Series(statistics, RunSeries) :
            OutOfRange(r.start_ts) => r.start_ts \in RunBuckets

\* C7 as amended: rows without a source bucket are gone from within the
\* range, and from everywhere when clear_existing is set; without
\* clear_existing the rows outside the range are left as they were
C7_OutOfRangeRowsKept ==
    AggregateOrCost =>
        /\ \A r \in DOMAIN Series(statistics, RunSeries) :
              r.start_ts \notin RunBuckets =>
                  ~last.args.clear_existing /\ OutOfRange(r.start_ts)
        /\ ~last.args.clear_existing =>
              BagSelect(Series(statistics, RunSeries),
                        LAMBDA r : OutOfRange(r.start_ts))
                = BagSelect(Series(prev.statistics, RunSeries),
                            LAMBDA r : OutOfRange(r.start_ts))

\* a derive-cost run left a cost row outside the range of the energy rows
C7_Witness ==
    /\ Succeeded("generate_cost_statistics")
    /\ ~last.args.clear_existing
    /\ \E r \in DOMAIN Series(statistics, RunSeries) :
          OutOfRange(r.start_ts) /\ r.start_ts > SetMax(RunBuckets)
    /\ BagCardinality(Series(prev.statistics, EnergySeries)) > 1

----------------------------------------------------------------------------
(* C8: a call of any of the three handlers that does not return the success
   response leaves every table as it was before the call. *)
C8_FailureWritesNothing ==
    (last.op # "none" /\ last.status # 200) => Disk = prev

\* an aggregate run gave up for want of valid readings after clear_existing
\* had deleted rows of the series
C8_Witness ==
    /\ last.op = "generate_statistics" /\ last.status = 404
    /\ last.body.error = "No valid states found"
    /\ last.args.clear_existing
    /\ Series(prev.statistics, AggSeries) # EmptyBag
    /\ Series(prev.statistics_short_term, AggSeries) # EmptyBag

----------------------------------------------------------------------------
(* C9: when a handler returns, no connection it opened is still open, and
   it opened at most one. *)
C9_ConnectionsClosed == openConns = 0 /\ last.opened \in {0, 1}

\* a run was ended by an error raised after it had connected, the storage
\* not at fault
C9_Witness ==
    /\ last.op = "generate_statistics"
    /\ last.status = 500 /\ last.opened = 1 /\ ~last.fault

----------------------------------------------------------------------------
(* C10: derive-cost without a rate, when no bucket has a positive point
   value in both the energy and the cost series, returns the 400 response
   that the rate cannot be inferred and writes nothing (the storage
   working, both series known). *)

\* a bucket with a positive point value in both series before the call
HadRatePair ==
    \E e \in DOMAIN Series(prev.statistics, EnergySeries),
       c \in DOMAIN Series(prev.statistics, CostSeries) :
        /\ e.start_ts = c.start_ts
        /\ e.state # NULL /\ c.state # NULL
        /\ e.state[1] > 0 /\ c.state[1] > 0

C10_CannotInferRate ==
    (/\ last.op = "generate_cost_statistics" /\ ~last.fault
     /\ last.args.rate = NoRate
     /\ last.args.energy_entity_id \in DOMAIN statistics_meta
     /\ last.args.cost_entity_id \in DOMAIN statistics_meta
     /\ ~HadRatePair) =>
        /\ last.status = 400
        /\ last.body.error = "Could not auto-calculate rate"
        /\ Disk = prev

\* both series held positive rows, in no common bucket
C10_Witness ==
    /\ last.op = "generate_cost_statistics" /\ last.status = 400
    /\ last.args.rate = NoRate /\ ~last.args.clear_existing
    /\ last.body.error = "Could not auto-calculate rate"
    /\ \E e \in DOMAIN Series(prev.statistics, EnergySeries) : e.state[1] > 0
    /\ \E c \in DOMAIN Series(prev.statistics, CostSeries) : c.state[1] > 0

----------------------------------------------------------------------------
(* C11: a successful derive-cost run without a rate reports as rate_used
   the cost value divided by the energy value of the latest bucket that had
   a non-null, positive value in both series; later buckets without are
   passed over, and no other bucket enters the rate. *)

\* the row of a series at a bucket before the call (one per bucket)
PrevRow(id, ts) ==
    CHOOSE r \in DOMAIN Series(prev.statistics, id) : r.start_ts = ts

\* the buckets both series held before the call
SharedBuckets ==
    {e.start_ts : e \in DOMAIN Series(prev.statistics, EnergySeries)}
        \cap {c.start_ts : c \in DOMAIN Series(prev.statistics, CostSeries)}

\* those with a non-null, strictly positive value on both sides
PairBuckets ==
    {b \in SharedBuckets :
        /\ PrevRow(EnergySeries, b).state # NULL
        /\ PrevRow(CostSeries, b).state # NULL
        /\ PrevRow(EnergySeries, b).state[1] > 0
        /\ PrevRow(CostSeries, b).state[1] > 0}

C11_RateFromLatestPair ==
    (Succeeded("generate_cost_statistics") /\ last.args.rate = NoRate) =>
        /\ PairBuckets # {}
        /\ last.body.rate_used =
              RDiv(PrevRow(CostSeries, SetMax(PairBuckets)).state,
                   PrevRow(EnergySeries, SetMax(PairBuckets)).state)

\* the rate came from a bucket that a later shared bucket, its cost value
\* negative, did not displace
C11_Witness ==
    /\ Succeeded("generate_cost_statistics") /\ last.args.rate = NoRate
    /\ EnergySeries # CostSeries
    /\ \E b \in SharedBuckets :
          /\ b > SetMax(PairBuckets)
          /\ PrevRow(CostSeries, b).state = RInt(-1)
    /\ last.body.rate_used = Rat(1, 2)


----------------------------------------------------------------------------
(* C12: a derive-cost run with no rate and no clear_existing that follows a
   successful derive-cost run at a supplied rate over the same two series,
   and infers its rate, inserts nothing and rewrites the rows the first run
   wrote; their point values and cumulative sums are those of the first run
   up to the rounding of the inferred rate, not always identical. *)

\* the call that has returned was a successful derivation at a supplied rate
DerivedAtRate ==
    /\ Succeeded("generate_cost_statistics")
    /\ last.args.rate.k \in {"num", "str"}
    /\ ~RateIsFalsy(last.args.rate)

\* the next call derives again over the same series, the rate left out
Rederives ==
    /\ tick' # tick
    /\ last'.op = "generate_cost_statistics"
    /\ last'.args = [last.args EXCEPT !.rate = NoRate,
                                      !.clear_existing = FALSE]
    /\ last'.status = 200

\* C12 as claimed: identical values
C12_RederiveIdentical ==
    [][(DerivedAtRate /\ Rederives) =>
          /\ statistics' = statistics
          /\ last'.body.inserted = 0]_vars

\* |x - y| <= k * 2^-Precision * max(|x|, |y|): x and y agree to within k
\* roundings (two nulls agree)
Near(x, y, k) ==
    LET a == x[1] * y[2]
        b == y[1] * x[2]
    IN  Abs(a - b) * 2^Precision <= k * (IF Abs(a) > Abs(b) THEN Abs(a)
                                         ELSE Abs(b))

\* series, bucket and creation time of a row
RowKey(r) == <<r.metadata_id, r.start_ts, r.created_ts>>

\* C12 as amended: no inserts, the same rows, values within the rounding of
\* the rate (a quotient of rounded values), of each product and each addition
C12_RederiveWithinRounding ==
    [][(DerivedAtRate /\ Rederives) =>
          /\ last'.body.inserted = 0
          /\ last'.body.updated = last.body.inserted + last.body.updated
          /\ BagCardinality(statistics') = BagCardinality(statistics)
          /\ {RowKey(r) : r \in DOMAIN statistics'}
                = {RowKey(r) : r \in DOMAIN statistics}
          /\ \A r \in DOMAIN statistics, q \in DOMAIN statistics' :
                RowKey(r) = RowKey(q) =>
                    /\ Near(q.state, r.state, 4)
                    /\ Near(q.sum, r.sum, 2 * last'.body.total_hours + 2)]_vars

\* a run without a rate, after a run at the rate 7, inferred another rate
\* and rewrote two buckets or more
C12_Witness ==
    /\ Succeeded("generate_cost_statistics")
    /\ last.args.rate = NoRate /\ ~last.args.clear_existing
    /\ last.args.energy_entity_id # last.args.cost_entity_id
    /\ last.body.rate_used = Rat(13, 2)
    /\ last.body.inserted = 0 /\ last.body.updated >= 2
    /\ statistics # prev.statistics

----------------------------------------------------------------------------
(* C13: after any sequence of aggregate and derive-cost runs over a
   statistics table that began with at most one row per series and bucket,
   the table holds at most one row per series and bucket; a run inserts a
   row only for a bucket that had none when it came to it and updates the
   others in place. *)

\* the buckets of the written series that held a row when the upsert walk
\* began (none after clear_existing)
HeldBuckets ==
    IF last.args.clear_existing THEN {}
    ELSE {r.start_ts : r \in DOMAIN Series(prev.statistics, RunSeries)}

C13_OneRowPerBucket ==
    /\ \A r \in DOMAIN statistics : statistics[r] = 1
    /\ \A r, q \in DOMAIN statistics :
          (r.metadata_id = q.metadata_id /\ r.start_ts = q.start_ts) => r = q
    /\ AggregateOrCost =>
          /\ last.body.inserted = Cardinality(RunBuckets \ HeldBuckets)
          /\ last.body.updated = Cardinality(RunBuckets \cap HeldBuckets)

\* a cost run followed an aggregate run's rows: it updated a row and
\* inserted another
C13_Witness ==
    /\ Succeeded("generate_cost_statistics")
    /\ ~last.args.clear_existing
    /\ last.body.inserted >= 1 /\ last.body.updated >= 1
    /\ \E r \in DOMAIN Series(prev.statistics, EnergySeries) :
          r.state = RInt(2) /\ r.created_ts = r.start_ts

----------------------------------------------------------------------------
(* C14: aggregate and derive-cost leave the raw readings and the entity
   metadata as they were, and change no row of a series other than the one
   they write: the requested entity's series for aggregate, the cost series
   for derive-cost. *)

\* the request named a series that exists as the one to write
TargetKnown ==
    IF last.op = "generate_statistics"
    THEN last.args.entity_id \in DOMAIN statistics_meta
    ELSE last.args.cost_entity_id \in DOMAIN statistics_meta

\* the rows of every series but one
OtherSeries(rows, id) == BagSelect(rows, LAMBDA r : r.metadata_id # id)

C14_OnlyTargetSeriesWritten ==
    last.op \in {"generate_statistics", "generate_cost_statistics"} =>
        /\ states = prev.states
        /\ states_meta = prev.states_meta
        /\ IF TargetKnown
           THEN /\ OtherSeries(statistics, RunSeries)
                     = OtherSeries(prev.statistics, RunSeries)
                /\ OtherSeries(statistics_short_term, RunSeries)
                     = OtherSeries(prev.statistics_short_term, RunSeries)
           ELSE Disk = prev

\* a derive-cost run cleared and rewrote the cost series beside an energy
\* series of two rows
C14_Witness ==
    /\ Succeeded("generate_cost_statistics")
    /\ last.args.clear_existing
    /\ EnergySeries # CostSeries
    /\ BagCardinality(Series(statistics, EnergySeries)) = 2
    /\ Series(statistics, CostSeries) # Series(prev.statistics, CostSeries)
    /\ statistics_short_term # prev.statistics_short_term

----------------------------------------------------------------------------
(* C15: a successful aggregate run stores, for every hour bucket that holds
   readings passing the filter (not a sentinel, numeric, strictly positive),
   the value of the one observed last in the bucket, not their sum; a
   reading that fails the filter enters no bucket. *)

\* the filter as the claim states it
PassesFilter(r) ==
    /\ r.metadata_id = prev.states_meta[last.args.entity_id]
    /\ r.state \notin {"unknown", "unavailable", "0.0", "0"}
    /\ FloatParses(r.state)
    /\ RPos(Float(r.state))

\* the readings of the entity that pass it and fall into the hour from h
Passing(h) ==
    {r \in DOMAIN prev.states :
        PassesFilter(r) /\ h <= r.last_changed_ts
                        /\ r.last_changed_ts < h + HourSeconds}

C15_LatestReadingOfBucket ==
    Succeeded("generate_statistics") =>
        /\ last.body.total_hours
              = Cardinality({h \in Buckets : Passing(h) # {}})
        /\ \A h \in Buckets :
              IF Passing(h) # {}
              THEN \E r \in Passing(h) :
                      /\ \A q \in Passing(h) :
                            q.last_changed_ts <= r.last_changed_ts
                      /\ \E s \in DOMAIN statistics :
                            /\ IsStatRow(s, AggSeries, h)
                            /\ s.state = Float(r.state)
              ELSE \A s \in DOMAIN statistics :
                      IsStatRow(s, AggSeries, h) =>
                          /\ ~last.args.clear_existing
                          /\ s \in DOMAIN prev.statistics

\* two passing readings of different values shared a bucket, which holds
\* the value of the later
C15_Witness ==
    /\ Succeeded("generate_statistics")
    /\ last.body.total_hours = 1
    /\ \E r, q \in Passing(3600) :
          /\ r.last_changed_ts < q.last_changed_ts /\ r.state # q.state
          /\ \E s \in DOMAIN statistics :
                IsStatRow(s, AggSeries, 3600) /\ s.state = Float(q.state)

----------------------------------------------------------------------------
(* C16: after a successful derive-cost run without clear_existing, every
   cost row whose bucket lies within the range of the energy buckets has as
   its cumulative sum the sum, in bucket order, of the stored cost point
   values from the earliest energy bucket through its own bucket. *)

\* ((0 + f[s1]) + f[s2]) + ..., as the loop accumulates
RECURSIVE SumInOrder(_, _)
SumInOrder(seq, f) ==
    IF seq = <<>> THEN RZero
    ELSE RAdd(SumInOrder(SubSeq(seq, 1, Len(seq) - 1), f), f[seq[Len(seq)]])

\* the buckets of the cost rows stored within the range of the run
CostBucketsInRange ==
    {r.start_ts : r \in {x \in DOMAIN Series(statistics, CostSeries) :
                            ~OutOfRange(x.start_ts)}}

\* the stored point value of the cost row of a bucket (a null adds nothing)
CostPoint ==
    [b \in CostBucketsInRange |->
        LET r == CHOOSE x \in DOMAIN statistics : IsStatRow(x, CostSeries, b)
        IN  IF r.state = NULL THEN RZero ELSE r.state]

\* the cumulative sum a row of the cost series should carry
PrefixSum(r) ==
    SumInOrder(SortedSeq({b \in CostBucketsInRange : b <= r.start_ts}),
               CostPoint)

DerivedWithoutClear ==
    Succeeded("generate_cost_statistics") /\ ~last.args.clear_existing

\* C16 as claimed, for any energy series, null point values included; read
\* in the code's favour: of two different series, and of the rows that
\* carry a cumulative sum at all
C16_CostSumsArePrefixSums ==
    (DerivedWithoutClear /\ EnergySeries # CostSeries) =>
        \A r \in DOMAIN Series(statistics, CostSeries) :
            (~OutOfRange(r.start_ts) /\ r.sum # NULL) => r.sum = PrefixSum(r)

\* what holds of the code: for an energy series without null point values,
\* of every row in the range
C16_PrefixSumsWithoutNullEnergy ==
    (DerivedWithoutClear
        /\ \A e \in DOMAIN Series(prev.statistics, EnergySeries) :
              e.state # NULL) =>
        \A r \in DOMAIN Series(statistics, CostSeries) :
            ~OutOfRange(r.start_ts) => r.sum = PrefixSum(r)

\* the energy row of a later bucket had a null point value, and the cost row
\* of that bucket kept the values it had beside the rewritten first bucket
C16_Witness ==
    /\ DerivedWithoutClear /\ EnergySeries # CostSeries
    /\ last.args.rate = NumRate(RInt(7))
    /\ \E e \in DOMAIN Series(prev.statistics, EnergySeries) :
          e.start_ts = 3600 /\ e.state = NULL
    /\ \E c \in DOMAIN Series(statistics, CostSeries) :
          c.start_ts = 0 /\ c.state = RInt(28) /\ c.sum = RInt(28)
    /\ \E c \in DOMAIN Series(statistics, CostSeries) :
          /\ c.start_ts = 3600 /\ c.state = RInt(4) /\ c.sum = RInt(9)
          /\ c \in DOMAIN prev.statistics
          /\ PrefixSum(c) = RInt(32)

----------------------------------------------------------------------------
(* C17: a successful aggregate run reports inserted + updated =
   total_hours, total_hours the number of distinct source hour buckets,
   inserted the number of them without a row of the series when the upsert
   walk began, updated the number with one. *)
C17_CountsAddUp ==
    Succeeded("generate_statistics") =>
        /\ last.body.total_hours = Cardinality(AggBuckets)
        /\ last.body.inserted + last.body.updated = last.body.total_hours
        /\ last.body.inserted = Cardinality(AggBuckets \ HeldBuckets)
        /\ last.body.updated = Cardinality(AggBuckets \cap HeldBuckets)

\* one bucket was inserted and another updated, beside a row of a bucket
\* that was not computed
C17_Witness ==
    /\ Succeeded("generate_statistics")
    /\ last.body.inserted = 1 /\ last.body.updated = 1
    /\ last.body.total_hours = 2
    /\ BagCardinality(Series(prev.statistics, AggSeries)) = 2

----------------------------------------------------------------------------
(* C18: a derive-cost call with clear_existing and without a rate never
   returns the success response and leaves the stored rows as they were;
   when both series exist and the storage works it returns the 400 response
   that the rate cannot be inferred, whatever pairs of rows were stored. *)
C18_ClearWithoutRateFails ==
    (/\ last.op = "generate_cost_statistics"
     /\ last.args.clear_existing /\ last.args.rate = NoRate) =>
        /\ last.status # 200
        /\ Disk = prev
        /\ (/\ ~last.fault
            /\ last.args.energy_entity_id \in DOMAIN statistics_meta
            /\ last.args.cost_entity_id \in DOMAIN statistics_meta) =>
              /\ last.status = 400
              /\ last.body.error = "Could not auto-calculate rate"

\* the call was refused although a bucket had positive values in both
\* series, and the cost rows are still stored
C18_Witness ==
    /\ last.op = "generate_cost_statistics"
    /\ last.args.clear_existing /\ last.args.rate = NoRate
    /\ last.status = 400 /\ ~last.fault
    /\ EnergySeries # CostSeries
    /\ HadRatePair
    /\ BagCardinality(Series(statistics, CostSeries)) = 2

====
